---- MODULE Spec2Model ----
(***************************************************************************)
(* Model of src/main.py: a document metadata service.  POST /upload/       *)
(* stores the uploaded file in an S3 bucket and then records a Document    *)
(* row; GET /document/{part_number} resolves the row into a presigned      *)
(* download link.                                                          *)
(*                                                                         *)
(* Strings are sequences of one-character strings, so that the f-string    *)
(* at line 74 is a real concatenation.  The database and the bucket are    *)
(* shared by all request handlers; a handler's calls to them are the       *)
(* atomic steps of the model, and handlers of different requests may       *)
(* interleave between those calls (several server processes share one      *)
(* database and one bucket).  The database itself is assumed to be up: a   *)
(* commit fails only on the unique constraint.                             *)
(***************************************************************************)
EXTENDS Integers, Sequences, FiniteSets, TLC

\* ---------------------------------------------------------------- bounds
\* Number of request handlers that may be in flight at the same time.
MaxRequests == 2
\* Number of distinct file contents a client may upload.
MaxContents == 2

\* ------------------------------------------------------------- constants
\* ExpiresIn of the presigned URL (seconds).
ExpiresIn == 3600

\* Python's None: the f-string renders it as the text None; it is no
\* sequence of characters, so it differs from every string.
None == <<"None">>

\* The literal text of the f-string at line 74.
DocumentsPrefix == <<"d", "o", "c", "u", "m", "e", "n", "t", "s", "/">>
Slash == <<"/">>

\* ---------------------------------------------------------------- inputs
Requests == 1..MaxRequests
Contents == 1..MaxContents

\* Values of the part_number query parameter of POST /upload/: absent,
\* empty, and two strings; the query string admits a "/".
PartNumbers == {None, <<>>, <<"a">>, <<"a", "/", "a">>}

\* Names of uploaded files (the multipart filename, taken verbatim).
FileNames == {<<"a">>, <<"a", "/", "a">>}

\* Values of the {part_number} path parameter: one non-empty path segment,
\* so no "/" in it.  <<"b">> is never uploaded.
HasSlash(s) == \E i \in 1..Len(s) : s[i] = "/"
PathPartNumbers == {p \in (PartNumbers \ {None}) \cup {<<"b">>} : p # <<>> /\ ~HasSlash(p)}

VARIABLES
    documents,   \* the documents table: a set of Document rows
    bucket,      \* the S3 bucket: a function from the stored keys to contents
    pc,          \* per request handler: where it stands
    req,         \* per request handler: the request line it serves
    frame,       \* per request handler: the locals of upload_file in flight
    s3_result,   \* per request handler: how s3.upload_fileobj ended
    resp,        \* per request handler: the response it sent
    acked        \* per part number: the uploads answered with success, in order

vars == <<documents, bucket, pc, req, frame, s3_result, resp, acked>>

\* -------------------------------------------------------------- helpers
\* A check for None alone, which lets the empty string through.
FalsyNoneOnly(part_number) == part_number = None

\* Python truthiness of Optional[str]: None and "" are falsy.
Falsy(part_number) == part_number = None \/ Len(part_number) = 0

UploadablePartNumbers == {p \in PartNumbers : ~Falsy(p)}

\* f"documents/{part_number}/{file.filename}"
S3Key(part_number, file_name) == DocumentsPrefix \o part_number \o Slash \o file_name

\* s3.upload_fileobj: put the content under the key, replacing what is there.
PutObject(b, key, content) ==
    [k \in DOMAIN b \cup {key} |-> IF k = key THEN content ELSE b[k]]

\* s3.generate_presigned_url('get_object', Params={Bucket, Key}, ExpiresIn)
PresignedUrl(key) == [Key |-> key, ExpiresIn |-> ExpiresIn]

\* What a presigned link yields when dereferenced within its lifetime.
NoObject == 0
Dereference(url) == IF url.Key \in DOMAIN bucket THEN bucket[url.Key] ELSE NoObject

\* Responses.
NoResponse == [status |-> 0, error |-> "none", body |-> [detail |-> "none"]]
HTTPException(status_code, detail) ==
    [status |-> status_code, error |-> "HTTPException", body |-> [detail |-> detail]]
\* An exception no handler catches: the server answers 500.
Unhandled(exc) ==
    [status |-> 500, error |-> exc, body |-> [detail |-> "Internal Server Error"]]
UploadResponse(part_number) ==
    [status |-> 200, error |-> "none",
     body |-> [message |-> "File uploaded successfully", part_number |-> part_number]]
DocumentResponse(file_name, url) ==
    [status |-> 200, error |-> "none",
     body |-> [file_name |-> file_name, download_url |-> url]]

NoRequest == [kind |-> "none", part_number |-> None]
NoFrame == [filename |-> <<>>, content |-> NoObject, s3_key |-> <<>>]

\* A column declared without unique=True: nothing ever conflicts.
ConflictNever(part_number) == FALSE

\* The unique constraint on documents.part_number.
Conflict(part_number) == \E d \in documents : d.part_number = part_number

\* Document(part_number=..., file_name=..., s3_key=...); the id is assigned
\* by the database on insert.
Document(part_number, file_name, s3_key) ==
    [id |-> Cardinality(documents) + 1, part_number |-> part_number,
     file_name |-> file_name, s3_key |-> s3_key]

\* The query without its filter: any row of the table.
QueryFirstUnfiltered(part_number) == documents

\* db.query(Document).filter(Document.part_number == part_number).first():
\* the set of rows the query may return (empty: None).
QueryFirst(part_number) == {d \in documents : d.part_number = part_number}

\* ----------------------------------------------------------------- Init
Init ==
    /\ documents = {}
    /\ bucket = <<>>
    /\ pc = [r \in Requests |-> "idle"]
    /\ req = [r \in Requests |-> NoRequest]
    /\ frame = [r \in Requests |-> NoFrame]
    /\ s3_result = [r \in Requests |-> "none"]
    /\ resp = [r \in Requests |-> NoResponse]
    /\ acked = [p \in UploadablePartNumbers |-> <<>>]

Free(r) == pc[r] \in {"idle", "done"}

\* The handler returns or raises: its locals are gone, the response is sent.
Respond(r, response) ==
    /\ pc' = [pc EXCEPT ![r] = "done"]
    /\ resp' = [resp EXCEPT ![r] = response]
    /\ frame' = [frame EXCEPT ![r] = NoFrame]

\* --------------------------------------------------------- upload_file
\* Lines 69-71: the request arrives with a falsy part_number; the file is
\* not looked at.
UploadInvalid(r) ==
    /\ Free(r)
    /\ \E part_number \in PartNumbers :
        /\ Falsy(part_number)
        /\ req' = [req EXCEPT ![r] = [kind |-> "upload", part_number |-> part_number]]
    /\ Respond(r, HTTPException(400, "Part number is required"))
    /\ s3_result' = [s3_result EXCEPT ![r] = "none"]
    /\ UNCHANGED <<documents, bucket, acked>>

\* Lines 69-74: the request arrives with a part_number and computes s3_key.
UploadBegin(r) ==
    /\ Free(r)
    /\ \E part_number \in PartNumbers, filename \in FileNames, content \in Contents :
        /\ ~Falsy(part_number)
        /\ req' = [req EXCEPT ![r] = [kind |-> "upload", part_number |-> part_number]]
        /\ frame' = [frame EXCEPT ![r] = [filename |-> filename, content |-> content,
                                          s3_key |-> S3Key(part_number, filename)]]
    /\ pc' = [pc EXCEPT ![r] = "s3"]
    /\ resp' = [resp EXCEPT ![r] = NoResponse]
    /\ s3_result' = [s3_result EXCEPT ![r] = "none"]
    /\ UNCHANGED <<documents, bucket, acked>>

\* Line 75 returns.
UploadStoreOk(r) ==
    /\ pc[r] = "s3"
    /\ bucket' = PutObject(bucket, frame[r].s3_key, frame[r].content)
    /\ s3_result' = [s3_result EXCEPT ![r] = "ok"]
    /\ pc' = [pc EXCEPT ![r] = "db"]
    /\ UNCHANGED <<documents, req, frame, resp, acked>>

\* The ClientError of line 75 swallowed: the handler goes on to the insert.
UploadStoreFailIgnored(r) ==
    /\ pc[r] = "s3"
    /\ s3_result' = [s3_result EXCEPT ![r] = "ClientError"]
    /\ pc' = [pc EXCEPT ![r] = "db"]
    /\ UNCHANGED <<documents, bucket, req, frame, resp, acked>>

\* Line 75 raises ClientError; lines 83-84.
UploadStoreFail(r) ==
    /\ pc[r] = "s3"
    /\ s3_result' = [s3_result EXCEPT ![r] = "ClientError"]
    /\ Respond(r, HTTPException(500, "ClientError"))
    /\ UNCHANGED <<documents, bucket, req, acked>>

\* The insert and commit done before the upload to the bucket.
UploadCommitBeforeStore(r) ==
    /\ pc[r] \in {"s3", "db"}
    /\ ~Conflict(req[r].part_number)
    /\ documents' = documents \cup
           {Document(req[r].part_number, frame[r].filename, frame[r].s3_key)}
    /\ Respond(r, UploadResponse(req[r].part_number))
    /\ acked' = [acked EXCEPT ![req[r].part_number] =
                     Append(@, [file_name |-> frame[r].filename,
                                content |-> frame[r].content])]
    /\ UNCHANGED <<bucket, req, s3_result>>

\* Lines 78-82: insert, commit and answer.
UploadCommitOk(r) ==
    /\ pc[r] = "db"
    /\ ~Conflict(req[r].part_number)
    /\ documents' = documents \cup
           {Document(req[r].part_number, frame[r].filename, frame[r].s3_key)}
    /\ Respond(r, UploadResponse(req[r].part_number))
    /\ acked' = [acked EXCEPT ![req[r].part_number] =
                     Append(@, [file_name |-> frame[r].filename,
                                content |-> frame[r].content])]
    /\ UNCHANGED <<bucket, req, s3_result>>

\* The row of an existing part_number replaced (an upsert), answered with success.
UploadCommitUpsert(r) ==
    /\ pc[r] = "db"
    /\ Conflict(req[r].part_number)
    /\ documents' = {d \in documents : d.part_number # req[r].part_number} \cup
           {[id |-> d.id, part_number |-> d.part_number,
             file_name |-> frame[r].filename, s3_key |-> frame[r].s3_key] :
                d \in {e \in documents : e.part_number = req[r].part_number}}
    /\ Respond(r, UploadResponse(req[r].part_number))
    /\ UNCHANGED <<bucket, req, s3_result, acked>>

\* The IntegrityError swallowed and the request answered with success.
UploadCommitConflictSwallowed(r) ==
    /\ pc[r] = "db"
    /\ Conflict(req[r].part_number)
    /\ Respond(r, UploadResponse(req[r].part_number))
    /\ acked' = [acked EXCEPT ![req[r].part_number] =
                     Append(@, [file_name |-> frame[r].filename,
                                content |-> frame[r].content])]
    /\ UNCHANGED <<documents, bucket, req, s3_result>>

\* Line 80 raises IntegrityError, which `except ClientError` does not catch.
UploadCommitConflict(r) ==
    /\ pc[r] = "db"
    /\ Conflict(req[r].part_number)
    /\ Respond(r, Unhandled("IntegrityError"))
    /\ UNCHANGED <<documents, bucket, req, s3_result, acked>>

\* -------------------------------------------------------- get_document
\* Lines 91-93: no row.
GetDocumentNotFound(r) ==
    /\ Free(r)
    /\ \E part_number \in PathPartNumbers :
        /\ QueryFirst(part_number) = {}
        /\ req' = [req EXCEPT ![r] = [kind |-> "get", part_number |-> part_number]]
    /\ Respond(r, HTTPException(404, "Document not found"))
    /\ s3_result' = [s3_result EXCEPT ![r] = "none"]
    /\ UNCHANGED <<documents, bucket, acked>>

\* Lines 91-100: a row, and the link is signed.
GetDocumentOk(r) ==
    /\ Free(r)
    /\ \E part_number \in PathPartNumbers :
        \E document \in QueryFirst(part_number) :
            /\ req' = [req EXCEPT ![r] = [kind |-> "get", part_number |-> part_number]]
            /\ Respond(r, DocumentResponse(document.file_name,
                                           PresignedUrl(document.s3_key)))
    /\ s3_result' = [s3_result EXCEPT ![r] = "none"]
    /\ UNCHANGED <<documents, bucket, acked>>

\* Lines 91-98: a row, and signing raises ClientError; lines 101-102.
GetDocumentSignFail(r) ==
    /\ Free(r)
    /\ \E part_number \in PathPartNumbers :
        /\ QueryFirst(part_number) # {}
        /\ req' = [req EXCEPT ![r] = [kind |-> "get", part_number |-> part_number]]
    /\ Respond(r, HTTPException(500, "ClientError"))
    /\ s3_result' = [s3_result EXCEPT ![r] = "none"]
    /\ UNCHANGED <<documents, bucket, acked>>

Next ==
    \E r \in Requests :
        \/ UploadInvalid(r)
        \/ UploadBegin(r)
        \/ UploadStoreOk(r)
        \/ UploadStoreFail(r)
        \/ UploadCommitOk(r)
        \/ UploadCommitConflict(r)
        \/ GetDocumentNotFound(r)
        \/ GetDocumentOk(r)
        \/ GetDocumentSignFail(r)

Spec == Init /\ [][Next]_vars

\* =============================================================== claims
\* The key the specification gives: "documents/" + part_number + "/" + file_name.
KeyText(part_number, file_name) ==
    <<"d", "o", "c", "u", "m", "e", "n", "t", "s", "/">> \o part_number \o <<"/">> \o file_name

\* A part_number that is absent or empty.
Absent(part_number) == part_number = None \/ part_number = <<>>

\* Handler r takes a step.
Stepped(r) == pc'[r] # pc[r] \/ req'[r] # req[r] \/ resp'[r] # resp[r]

\* Handler r receives a request in this step.
Arrives(r) == Free(r) /\ Stepped(r)

\* Handler r ends an upload in this step.
UploadEnds(r) == req[r].kind = "upload" /\ pc[r] \in {"s3", "db"} /\ pc'[r] = "done"

\* C1: every upload answered with success stays retrievable: the lookup of
\* its part_number finds its file_name, the link is for the key
\* documents/<part_number>/<file_name>, and the object under the key holds
\* the uploaded content.
C1_UploadThenLookup ==
    \A p \in UploadablePartNumbers \cap PathPartNumbers :
        \A i \in 1..Len(acked[p]) :
            /\ QueryFirst(p) # {}
            /\ \A d \in QueryFirst(p) :
                /\ d.file_name = acked[p][i].file_name
                /\ PresignedUrl(d.s3_key).Key = KeyText(p, acked[p][i].file_name)
                /\ Dereference(PresignedUrl(d.s3_key)) = acked[p][i].content

\* C2: an upload that ends when its part_number already has a successful
\* upload of other content is not answered with success, and after it the
\* lookup still gives the first upload's file_name and a link whose object
\* holds the first upload's content.
C2_SecondUploadRejected ==
    [][\A r \in Requests :
        (/\ UploadEnds(r)
         /\ pc[r] = "db"
         /\ acked[req[r].part_number] # <<>>
         /\ frame[r].content # acked[req[r].part_number][1].content)
        => /\ resp'[r].status # 200
           /\ \E d \in documents' :
                /\ d.part_number = req[r].part_number
                /\ d.file_name = acked[req[r].part_number][1].file_name
                /\ d.s3_key \in DOMAIN bucket'
                /\ bucket'[d.s3_key] = acked[req[r].part_number][1].content]_vars

\* C3: no two Document rows have the same part_number.
C3_PartNumberUnique ==
    \A d1 \in documents : \A d2 \in documents :
        d1.part_number = d2.part_number => d1 = d2

C3_Witness ==
    /\ Cardinality(documents) = 2
    /\ \E r \in Requests : resp[r] = Unhandled("IntegrityError")

\* C4: an upload whose part_number is absent or empty is answered with
\* HTTP 400 at once, and neither the bucket nor the table changes.
C4_MissingPartNumber ==
    [][\A r \in Requests :
        (Arrives(r) /\ req'[r].kind = "upload" /\ Absent(req'[r].part_number))
        => /\ pc'[r] = "done"
           /\ resp'[r] = HTTPException(400, "Part number is required")
           /\ bucket' = bucket
           /\ documents' = documents]_vars

C4_Witness ==
    /\ documents # {}
    /\ \E r \in Requests :
        /\ req[r].kind = "upload"
        /\ req[r].part_number = <<>>
        /\ resp[r].status = 400

\* C5: an upload that reaches the insert while its part_number has a row
\* ends with a 4xx HTTP error raised by the handler, and the table is
\* unchanged.
C5_DuplicateIsClientError ==
    [][\A r \in Requests :
        (/\ UploadEnds(r)
         /\ pc[r] = "db"
         /\ \E d \in documents : d.part_number = req[r].part_number)
        => /\ resp'[r].error = "HTTPException"
           /\ resp'[r].status \in 400..499
           /\ documents' = documents]_vars

\* C6: a row is inserted only by a handler whose own upload to the bucket
\* has returned; when that upload raises ClientError the request ends at
\* once with HTTP 500 and the table is unchanged.
C6_StoreBeforeCommit ==
    [][\A r \in Requests :
        Stepped(r) =>
            /\ documents' # documents =>
                /\ s3_result[r] = "ok"
                /\ frame[r].s3_key \in DOMAIN bucket
            /\ (s3_result[r] # "ClientError" /\ s3_result'[r] = "ClientError") =>
                /\ pc'[r] = "done"
                /\ resp'[r] = HTTPException(500, "ClientError")
                /\ documents' = documents]_vars

C6_Witness ==
    \E r1 \in Requests : \E r2 \in Requests :
        /\ s3_result[r1] = "ClientError"
        /\ resp[r1].status = 500
        /\ resp[r2].status = 200
        /\ req[r2].kind = "upload"
        /\ \E d \in documents : d.part_number = req[r2].part_number

\* C7: a lookup of a part_number that has no row is answered with HTTP 404
\* and no link.
C7_LookupNotFound ==
    [][\A r \in Requests :
        (/\ Arrives(r)
         /\ req'[r].kind = "get"
         /\ ~ \E d \in documents : d.part_number = req'[r].part_number)
        => resp'[r] = HTTPException(404, "Document not found")]_vars

C7_Witness ==
    /\ documents # {}
    /\ \E r \in Requests :
        /\ req[r].kind = "get"
        /\ resp[r].status = 404

\* C8: a row, once in the table, stays in it unchanged, and a lookup
\* changes neither the table nor the bucket.
C8_RowsImmutable ==
    [][/\ \A d \in documents : d \in documents'
       /\ \A r \in Requests :
            (Arrives(r) /\ req'[r].kind = "get")
            => (documents' = documents /\ bucket' = bucket)]_vars

C8_Witness ==
    \E r1 \in Requests : \E r2 \in Requests :
        /\ req[r1].kind = "get"
        /\ resp[r1].status = 200
        /\ resp[r2] = Unhandled("IntegrityError")

\* C9: every row's s3_key is documents/<part_number>/<file_name>, and the
\* bucket holds an object under it.
C9_RowHasObject ==
    \A d \in documents :
        /\ d.s3_key = KeyText(d.part_number, d.file_name)
        /\ d.s3_key \in DOMAIN bucket

\* A row with its object, next to an object that no row points to.
C9_Witness ==
    /\ documents # {}
    /\ \E k \in DOMAIN bucket : \A d \in documents : d.s3_key # k

\* C10: of the uploads of one part_number at most one is answered with
\* success, and the one row of that part_number is the one that upload wrote.
C10_OneWinner ==
    \A p \in UploadablePartNumbers :
        /\ Len(acked[p]) <= 1
        /\ Len(acked[p]) = 1 =>
            /\ QueryFirst(p) # {}
            /\ \A d \in QueryFirst(p) :
                /\ d.file_name = acked[p][1].file_name
                /\ d.s3_key = KeyText(p, acked[p][1].file_name)

\* Two uploads of one part_number and one key in flight together: the one
\* that stored last has committed and been answered, the other has stored
\* and not yet committed.
C10_Witness ==
    \E r1 \in Requests : \E r2 \in Requests :
        /\ resp[r1] = UploadResponse(req[r1].part_number)
        /\ req[r1].kind = "upload"
        /\ pc[r2] = "db"
        /\ req[r2].part_number = req[r1].part_number
        /\ Len(acked[req[r1].part_number]) = 1
        /\ frame[r2].s3_key = KeyText(req[r1].part_number, acked[req[r1].part_number][1].file_name)
        /\ frame[r2].content # acked[req[r1].part_number][1].content
        /\ bucket[frame[r2].s3_key] = acked[req[r1].part_number][1].content
====
